---- MODULE Spec2Model ----
(***************************************************************************)
(* Entity resolution and relationship-graph construction of the Calculus   *)
(* Carbon pipeline (scripts/04_entity_resolution.py and                     *)
(* scripts/05_data_integration.py).                                         *)
(*                                                                          *)
(* A Python str is a sequence of one-character strings.  A missing value    *)
(* (pandas NaN / None) is the value NA.                                     *)
(***************************************************************************)
EXTENDS Integers, Sequences, FiniteSets, TLC

VARIABLES
    pc,                  \* position of the run
    name,                \* normalize_name: the argument
    norm1,               \* normalize_name(name)
    norm2,               \* normalize_name(normalize_name(name))
    df,                  \* the cleaned source table handed to build_entity_mapping
    entity_map,          \* build_entity_mapping(df)
    threshold,           \* threshold argument of find_similar_entities
    potential_duplicates,\* find_similar_entities(entity_map, threshold)
    reverse_map,         \* create_reverse_lookup(entity_map)
    text,                \* text argument of find_entity_in_text
    found_entities,      \* find_entity_in_text(text, entity_map)
    developers,          \* datasets['developers'] read by create_relationships_table
    investors,           \* datasets['investors']
    email_mentions,      \* email_entity_mentions.json
    transcript_mentions, \* transcript_entity_mentions.json
    relationships,       \* create_relationships_table: the edges as generated
    relationships_table, \* create_relationships_table: the table returned
    dev_map,             \* load_entity_maps: the ids of developer_entity_map.json
    inv_map,             \* load_entity_maps: the ids of investor_entity_map.json
    entity_map_2,        \* the entity map of a second build of the same table
    threshold_2,         \* threshold of a second call of find_similar_entities
    potential_duplicates_2, \* the result of that second call
    datasets,            \* main: the cleaned tables load_cleaned_data returns
    developer_map,       \* main: build_entity_mapping(datasets['developers'], ...)
    investor_map,        \* main: build_entity_mapping(datasets['investors'], ...)
    written,             \* the files of data/integrated written so far
    raw_files,           \* run_all_scripts: the files that exist in data/raw
    checked,             \* run_all_scripts: required files looked at so far
    all_present,         \* run_all_scripts: all_present of the pre-flight check
    started,             \* run_all_scripts: the scripts started, in order
    results,             \* run_all_scripts: results, script -> status
    success_count        \* run_all_scripts: success_count of the summary

normVars == <<name, norm1, norm2>>
erVars == <<df, entity_map, threshold, potential_duplicates, reverse_map, text,
            found_entities>>
aggVars == <<developers, investors, email_mentions, transcript_mentions,
             relationships, relationships_table, dev_map, inv_map>>
repVars == <<entity_map_2, threshold_2, potential_duplicates_2>>
mainVars == <<datasets, developer_map, investor_map, written>>
runnerVars == <<raw_files, checked, all_present, started, results, success_count>>
vars == <<pc, normVars, erVars, aggVars, repVars, mainVars, runnerVars>>

(***************************************************************************)
(* Values                                                                   *)
(***************************************************************************)
NA == <<"NaN">>

\* Python None
None == <<"None">>

\* a Python dict: the keys in insertion order and the value of each key
EmptyDict == [keys |-> <<>>, data |-> <<>>]

HasKey(d, k) == \E i \in 1..Len(d.keys) : d.keys[i] = k

\* d[k] = v
Put(d, k, v) ==
    [keys |-> IF HasKey(d, k) THEN d.keys ELSE Append(d.keys, k),
     data |-> [x \in (DOMAIN d.data) \cup {k} |-> IF x = k THEN v ELSE d.data[x]]]

isna(x) == x = NA

EmptyStr == <<>>

\* str.lower() on one character of the alphabet used here
LowerChar(c) ==
    CASE c = "A" -> "a"
      [] c = "B" -> "b"
      [] c = "L" -> "l"
      [] c = "P" -> "p"
      [] c = "N" -> "n"
      [] c = "S" -> "s"
      [] c = "V" -> "v"
      [] OTHER -> c

lower(s) == [i \in 1..Len(s) |-> LowerChar(s[i])]

\* s.startswith(p)
StartsWith(s, p) == Len(s) >= Len(p) /\ SubSeq(s, 1, Len(p)) = p

\* str.replace(old, new) for a non-empty old: leftmost, non-overlapping
RECURSIVE replace(_, _, _)
replace(s, old, new) ==
    IF Len(s) < Len(old) THEN s
    ELSE IF StartsWith(s, old)
         THEN new \o replace(SubSeq(s, Len(old) + 1, Len(s)), old, new)
         ELSE <<Head(s)>> \o replace(Tail(s), old, new)

\* ' '.join(s.split()): runs of whitespace collapse to one space, ends trimmed
RECURSIVE lstrip(_)
lstrip(s) == IF s # <<>> /\ Head(s) = " " THEN lstrip(Tail(s)) ELSE s

RECURSIVE JoinSplit(_)
JoinSplit(s) ==
    LET t == lstrip(s) IN
    IF t = <<>> THEN <<>>
    ELSE IF Head(t) # " " /\ Len(t) > 1 /\ t[2] = " "
         THEN IF lstrip(Tail(t)) = <<>> THEN <<Head(t)>>
              ELSE <<Head(t), " ">> \o JoinSplit(Tail(t))
         ELSE <<Head(t)>> \o JoinSplit(Tail(t))

(***************************************************************************)
(* normalize_name                                                           *)
(***************************************************************************)
SufLtd       == <<" ", "l", "t", "d">>
SufLlc       == <<" ", "l", "l", "c">>
SufInc       == <<" ", "i", "n", "c">>
SufSolutions == <<" ", "s", "o", "l", "u", "t", "i", "o", "n", "s">>
SufAgro      == <<" ", "a", "g", "r", "o">>
SufCapital   == <<" ", "c", "a", "p", "i", "t", "a", "l">>

\* the suffix list without ' agro'
RemoveSuffixes_NoAgro(s) ==
    LET a == replace(replace(replace(s, SufLtd, <<>>), SufLlc, <<>>), SufInc, <<>>)
    IN  replace(replace(a, SufSolutions, <<>>), SufCapital, <<>>)

RemoveSuffixes(s) ==
    LET a == replace(replace(replace(s, SufLtd, <<>>), SufLlc, <<>>), SufInc, <<>>)
    IN  replace(replace(replace(a, SufSolutions, <<>>), SufAgro, <<>>), SufCapital, <<>>)

RemovePunctuation(s) ==
    replace(replace(replace(s, <<".">>, <<>>), <<",">>, <<>>), <<"-">>, <<" ">>)

\* normalize_name without the test for a missing name: str(nan) is normalised
normalize_name_NoNullTest(n) ==
    IF isna(n) THEN <<"n", "a", "n">>
    ELSE JoinSplit(RemovePunctuation(RemoveSuffixes(lower(n))))

normalize_name(n) ==
    IF isna(n) THEN EmptyStr
    ELSE JoinSplit(RemovePunctuation(RemoveSuffixes(lower(n))))

(***************************************************************************)
(* Inputs of normalize_name: concatenations of at most MaxPieces pieces     *)
(***************************************************************************)
MaxPieces == 3

NamePieces ==
    { <<"a">>, <<"B">>, <<" ">>, <<"-">>, <<".">>, <<",">>,
      <<"l", "t", "d">>, <<"a", "g", "r", "o">> }

RECURSIVE Concat(_)
Concat(ps) == IF ps = <<>> THEN <<>> ELSE Head(ps) \o Concat(Tail(ps))

NameInputs ==
    { Concat(ps) : ps \in UNION { [1..k -> NamePieces] : k \in 0..MaxPieces } }

(***************************************************************************)
(* build_entity_mapping                                                     *)
(***************************************************************************)
\* s.strip()
RECURSIVE rstrip(_)
rstrip(s) == IF s # <<>> /\ s[Len(s)] = " " THEN rstrip(SubSeq(s, 1, Len(s) - 1)) ELSE s

strip(s) == rstrip(lstrip(s))

\* s.split(';'): the pieces between separators, empty pieces included
RECURSIVE SplitFrom(_, _, _)
SplitFrom(s, sep, cur) ==
    IF s = <<>> THEN <<cur>>
    ELSE IF Head(s) = sep THEN <<cur>> \o SplitFrom(Tail(s), sep, <<>>)
         ELSE SplitFrom(Tail(s), sep, Append(cur, Head(s)))

split(s, sep) == SplitFrom(s, sep, <<>>)

\* [alt.strip() for alt in alternates if alt.strip()]
RECURSIVE StripNonEmpty(_)
StripNonEmpty(parts) ==
    IF parts = <<>> THEN <<>>
    ELSE IF strip(Head(parts)) # <<>>
         THEN <<strip(Head(parts))>> \o StripNonEmpty(Tail(parts))
         ELSE StripNonEmpty(Tail(parts))

\* the names of a row: the canonical name, then the alternates
RowNamesOf(row) ==
    IF ~isna(row.alt_names)
    THEN <<row.name>> \o StripNonEmpty(split(row.alt_names, ";"))
    ELSE <<row.name>>

Range(q) == { q[i] : i \in 1..Len(q) }

\* list(set(xs)): the distinct elements, in an order the hash seed decides
ListsOfSet(S) ==
    { q \in [1..Cardinality(S) -> S] : \A i, j \in 1..Cardinality(S) : i # j => q[i] # q[j] }

NormalizedNames(names) == [i \in 1..Len(names) |-> normalize_name(names[i])]

\* build_entity_mapping normalising the canonical name only
EntitiesOfRow_CanonicalOnly(row) ==
    LET names == RowNamesOf(row) IN
    { [canonical_name |-> row.name,
       alternate_names |-> IF Len(names) > 1 THEN Tail(names) ELSE <<>>,
       normalized_variants |-> <<normalize_name(row.name)>>] }

\* the entity of one row, for each order list(set(...)) may produce
EntitiesOfRow(row) ==
    LET names == RowNamesOf(row) IN
    { [canonical_name |-> row.name,
       alternate_names |-> IF Len(names) > 1 THEN Tail(names) ELSE <<>>,
       normalized_variants |-> vs] : vs \in ListsOfSet(Range(NormalizedNames(names))) }

\* the entity maps build_entity_mapping can return after the first k rows
RECURSIVE build_entity_mapping(_, _)
build_entity_mapping(rows, k) ==
    IF k = 0 THEN {EmptyDict}
    ELSE { Put(m, rows[k].id, e) :
             m \in build_entity_mapping(rows, k - 1), e \in EntitiesOfRow(rows[k]) }

(***************************************************************************)
(* fuzz.ratio: 100 * (1 - indel_distance / (len1 + len2)), an exact rational *)
(***************************************************************************)
RECURSIVE GCD(_, _)
GCD(a, b) == IF b = 0 THEN a ELSE GCD(b, a % b)

Rat(n, d) == LET g == GCD(n, d) IN [num |-> n \div g, den |-> d \div g]

RatGt(a, b) == a.num * b.den > b.num * a.den
RatGeq(a, b) == a.num * b.den >= b.num * a.den
\* comparison of a score with an integer threshold
RatGeqInt(a, t) == a.num >= t * a.den

Max2(a, b) == IF a >= b THEN a ELSE b

\* length of the longest common subsequence
RECURSIVE LCS(_, _)
LCS(a, b) ==
    IF a = <<>> \/ b = <<>> THEN 0
    ELSE IF Head(a) = Head(b) THEN 1 + LCS(Tail(a), Tail(b))
         ELSE Max2(LCS(Tail(a), b), LCS(a, Tail(b)))

\* a ratio normalised by the length of the first string only
fuzz_ratio_ByFirstLength(s1, s2) ==
    IF Len(s1) + Len(s2) = 0 THEN Rat(100, 1)
    ELSE IF Len(s1) = 0 THEN Rat(0, 1)
         ELSE Rat(100 * LCS(s1, s2), Len(s1))

fuzz_ratio(s1, s2) ==
    IF Len(s1) + Len(s2) = 0 THEN Rat(100, 1)
    ELSE Rat(200 * LCS(s1, s2), Len(s1) + Len(s2))

(***************************************************************************)
(* find_similar_entities                                                    *)
(***************************************************************************)
SIMILARITY_THRESHOLD == 85

\* the two nested loops over the variants, after k iterations of the inner body
RECURSIVE CompareVariants(_, _, _)
CompareVariants(vs1, vs2, k) ==
    IF k = 0 THEN [max_similarity |-> Rat(0, 1), best_match |-> None]
    ELSE LET prev == CompareVariants(vs1, vs2, k - 1)
             name1 == vs1[((k - 1) \div Len(vs2)) + 1]
             name2 == vs2[((k - 1) % Len(vs2)) + 1]
             similarity == fuzz_ratio(name1, name2)
         IN  IF RatGt(similarity, prev.max_similarity)
             THEN [max_similarity |-> similarity, best_match |-> <<name1, name2>>]
             ELSE prev

\* find_similar_entities keeping a pair only above the threshold
ComparePair_StrictThreshold(em, th, id1, id2) ==
    LET entity1 == em.data[id1]
        entity2 == em.data[id2]
        r == CompareVariants(entity1.normalized_variants, entity2.normalized_variants,
                             Len(entity1.normalized_variants) * Len(entity2.normalized_variants))
    IN  IF r.max_similarity.num > th * r.max_similarity.den
        THEN << [id1 |-> id1, entity1 |-> entity1.canonical_name,
                 id2 |-> id2, entity2 |-> entity2.canonical_name,
                 similarity |-> r.max_similarity,
                 matched_variants |-> r.best_match] >>
        ELSE <<>>

\* find_similar_entities with the comparison against the threshold inverted
ComparePair_BelowThreshold(em, th, id1, id2) ==
    LET entity1 == em.data[id1]
        entity2 == em.data[id2]
        r == CompareVariants(entity1.normalized_variants, entity2.normalized_variants,
                             Len(entity1.normalized_variants) * Len(entity2.normalized_variants))
    IN  IF r.max_similarity.num <= th * r.max_similarity.den
        THEN << [id1 |-> id1, entity1 |-> entity1.canonical_name,
                 id2 |-> id2, entity2 |-> entity2.canonical_name,
                 similarity |-> r.max_similarity,
                 matched_variants |-> r.best_match] >>
        ELSE <<>>

\* the body of the loop over the pairs: zero or one candidate
ComparePair(em, th, id1, id2) ==
    LET entity1 == em.data[id1]
        entity2 == em.data[id2]
        r == CompareVariants(entity1.normalized_variants, entity2.normalized_variants,
                             Len(entity1.normalized_variants) * Len(entity2.normalized_variants))
    IN  IF RatGeqInt(r.max_similarity, th)
        THEN << [id1 |-> id1, entity1 |-> entity1.canonical_name,
                 id2 |-> id2, entity2 |-> entity2.canonical_name,
                 similarity |-> r.max_similarity,
                 matched_variants |-> r.best_match] >>
        ELSE <<>>

\* for id2 in entity_ids[i+1:]
RECURSIVE SimilarInner(_, _, _, _)
SimilarInner(em, th, i, j) ==
    IF j > Len(em.keys) THEN <<>>
    ELSE ComparePair(em, th, em.keys[i], em.keys[j]) \o SimilarInner(em, th, i, j + 1)

\* for i, id1 in enumerate(entity_ids)
RECURSIVE SimilarOuter(_, _, _)
SimilarOuter(em, th, i) ==
    IF i > Len(em.keys) THEN <<>>
    ELSE SimilarInner(em, th, i, i + 1) \o SimilarOuter(em, th, i + 1)

find_similar_entities(em, th) == SimilarOuter(em, th, 1)

(***************************************************************************)
(* create_reverse_lookup                                                    *)
(***************************************************************************)
\* for variant in data['normalized_variants'], after k iterations
RECURSIVE PutVariants(_, _, _, _)
PutVariants(rm, vs, id, k) ==
    IF k = 0 THEN rm
    ELSE LET prev == PutVariants(rm, vs, id, k - 1)
         IN  IF vs[k] # EmptyStr THEN Put(prev, vs[k], id) ELSE prev

\* for entity_id, data in entity_map.items(), after k iterations
RECURSIVE ReverseUpTo(_, _)
ReverseUpTo(em, k) ==
    IF k = 0 THEN EmptyDict
    ELSE LET entity_id == em.keys[k]
             data == em.data[entity_id]
             canonical_norm == normalize_name(data.canonical_name)
         IN  PutVariants(Put(ReverseUpTo(em, k - 1), canonical_norm, entity_id),
                         data.normalized_variants, entity_id,
                         Len(data.normalized_variants))

\* a reverse lookup that maps every key to the first entity of the map
create_reverse_lookup_FirstId(em) ==
    LET rm == ReverseUpTo(em, Len(em.keys))
    IN  [keys |-> rm.keys, data |-> [x \in DOMAIN rm.data |-> em.keys[1]]]

create_reverse_lookup(em) == ReverseUpTo(em, Len(em.keys))

(***************************************************************************)
(* find_entity_in_text                                                      *)
(***************************************************************************)
\* needle in hay
Contains(hay, needle) ==
    \E i \in 0..(Len(hay) - Len(needle)) : SubSeq(hay, i + 1, i + Len(needle)) = needle

\* the loop over the alternates: the first alternate found in the text, if any
RECURSIVE FirstAlternate(_, _, _)
FirstAlternate(alts, text_lower, k) ==
    IF k > Len(alts) THEN None
    ELSE IF Contains(text_lower, lower(alts[k])) THEN alts[k]
         ELSE FirstAlternate(alts, text_lower, k + 1)

\* find_entity_in_text without the continue after a canonical hit
MentionOf_NoContinue(entity_id, data, text_lower) ==
    LET alt_name == FirstAlternate(data.alternate_names, text_lower, 1)
        canonical == IF Contains(text_lower, lower(data.canonical_name))
                     THEN << [entity_id |-> entity_id, entity_name |-> data.canonical_name,
                              matched_text |-> data.canonical_name] >>
                     ELSE <<>>
    IN  IF alt_name # None
        THEN canonical \o << [entity_id |-> entity_id, entity_name |-> data.canonical_name,
                              matched_text |-> alt_name] >>
        ELSE canonical

\* the body of the loop over the entities: zero or one mention
MentionOf(entity_id, data, text_lower) ==
    IF Contains(text_lower, lower(data.canonical_name))
    THEN << [entity_id |-> entity_id, entity_name |-> data.canonical_name,
             matched_text |-> data.canonical_name] >>
    ELSE LET alt_name == FirstAlternate(data.alternate_names, text_lower, 1)
         IN  IF alt_name # None
             THEN << [entity_id |-> entity_id, entity_name |-> data.canonical_name,
                      matched_text |-> alt_name] >>
             ELSE <<>>

RECURSIVE MentionsFrom(_, _, _)
MentionsFrom(em, text_lower, k) ==
    IF k > Len(em.keys) THEN <<>>
    ELSE MentionOf(em.keys[k], em.data[em.keys[k]], text_lower)
             \o MentionsFrom(em, text_lower, k + 1)

\* a missing canonical name is a float: .lower() raises AttributeError
FindRaises(t, em) ==
    ~isna(t) /\ t # EmptyStr /\ \E k \in 1..Len(em.keys) : isna(em.data[em.keys[k]].canonical_name)

find_entity_in_text(t, em) ==
    IF t = EmptyStr \/ isna(t) THEN <<>> ELSE MentionsFrom(em, lower(t), 1)

(***************************************************************************)
(* Inputs of the entity resolution: tables of at most MaxRows rows          *)
(***************************************************************************)
MaxRows == 2

EntityIds == {"D1", "D2"}

CanonicalNames == { NA, <<"A", "b">>, <<"a", "-", "b">>, <<"-">> }

AlternateNameFields == { NA, <<"b">>, <<"A", "b", ";", " ", ".">> }

\* a missing identifier: the NaN that keys the dict
NaNId == "NaN"

Rows ==
    [id : EntityIds, name : CanonicalNames, alt_names : AlternateNameFields]
      \cup { [id |-> NaNId, name |-> <<"A", "b">>, alt_names |-> NA],
              [id |-> NaNId, name |-> <<"a", "-", "b">>, alt_names |-> <<"b">>] }

\* two developers whose names differ in spacing and suffix
VerdeNovaTable ==
    << [id |-> "D1", alt_names |-> NA,
        name |-> <<"V", "e", "r", "d", "e", "N", "o", "v", "a", " ",
                   "S", "o", "l", "u", "t", "i", "o", "n", "s">>],
       [id |-> "D2", alt_names |-> NA,
        name |-> <<"V", "e", "r", "d", "e", " ", "N", "o", "v", "a", " ",
                   "A", "g", "r", "o">>] >>

\* two developers whose names have one character of five in common
UnlikeTable ==
    << [id |-> "D1", alt_names |-> NA, name |-> <<"a", "b">>],
       [id |-> "D2", alt_names |-> NA, name |-> <<"b", "x", "x">>] >>

\* two developers whose names have no character in common
DisjointTable ==
    << [id |-> "D1", alt_names |-> NA, name |-> <<"a", "b">>],
       [id |-> "D2", alt_names |-> NA, name |-> <<"x">>] >>

Tables ==
    UNION { [1..k -> Rows] : k \in 0..MaxRows }
      \cup {VerdeNovaTable, UnlikeTable, DisjointTable}

Thresholds == {0, 80, SIMILARITY_THRESHOLD}

Texts == { NA, <<"a", "b", ".">>, <<"A", "-", "B">>, <<"x">> }

(***************************************************************************)
(* create_relationships_table                                               *)
(***************************************************************************)
\* a mentioned_together edge with the two ends exchanged
MentionEdge_Swapped(dev, inv, source_type, source_id) ==
    [entity_1 |-> inv.entity_id, entity_1_name |-> inv.entity_name,
     entity_2 |-> dev.entity_id, entity_2_name |-> dev.entity_name,
     relationship_type |-> "mentioned_together",
     source_type |-> source_type, source_id |-> source_id]

\* one mentioned_together edge
MentionEdge(dev, inv, source_type, source_id) ==
    [entity_1 |-> dev.entity_id, entity_1_name |-> dev.entity_name,
     entity_2 |-> inv.entity_id, entity_2_name |-> inv.entity_name,
     relationship_type |-> "mentioned_together",
     source_type |-> source_type, source_id |-> source_id]

\* for dev in developers: for inv in investors, from iteration k on
RECURSIVE DocEdges(_, _, _, _, _)
DocEdges(devs, invs, source_type, source_id, k) ==
    IF k > Len(devs) * Len(invs) THEN <<>>
    ELSE <<MentionEdge(devs[((k - 1) \div Len(invs)) + 1], invs[((k - 1) % Len(invs)) + 1],
                       source_type, source_id)>>
         \o DocEdges(devs, invs, source_type, source_id, k + 1)

\* for mention in email_mentions / transcript_mentions, from document k on
RECURSIVE MentionEdges(_, _, _)
MentionEdges(mentions, source_type, k) ==
    IF k > Len(mentions) THEN <<>>
    ELSE DocEdges(mentions[k].developers, mentions[k].investors, source_type,
                  mentions[k].doc_id, 1)
         \o MentionEdges(mentions, source_type, k + 1)

IsDigit(c) == c \in {"0", "1", "2", "3", "4", "5", "6", "7", "8", "9"}

\* re.findall(r'P\d{3}', s): leftmost non-overlapping matches
RECURSIVE findall_project_ids(_)
findall_project_ids(s) ==
    IF Len(s) < 4 THEN <<>>
    ELSE IF s[1] = "P" /\ IsDigit(s[2]) /\ IsDigit(s[3]) /\ IsDigit(s[4])
         THEN <<SubSeq(s, 1, 4)>> \o findall_project_ids(SubSeq(s, 5, Len(s)))
         ELSE findall_project_ids(Tail(s))

\* datasets['developers'][datasets['developers']['ProjectID'] == project_id]
RECURSIVE DevRows(_, _)
DevRows(devs, project_id) ==
    IF devs = <<>> THEN <<>>
    ELSE IF Head(devs).ProjectID = project_id
         THEN <<Head(devs)>> \o DevRows(Tail(devs), project_id)
         ELSE DevRows(Tail(devs), project_id)

\* prior_interaction edges with the developer first and the investor second
RECURSIVE ProjectEdges_DeveloperFirst(_, _, _, _)
ProjectEdges_DeveloperFirst(row, project_ids, devs, k) ==
    IF k > Len(project_ids) THEN <<>>
    ELSE LET dev_row == DevRows(devs, project_ids[k])
         IN  (IF dev_row # <<>>
              THEN << [entity_1 |-> dev_row[1].DeveloperID,
                       entity_1_name |-> dev_row[1].DeveloperName,
                       entity_2 |-> row.InvestorID, entity_2_name |-> row.FundName,
                       relationship_type |-> "prior_interaction",
                       source_type |-> "investor_notes",
                       source_id |-> row.InvestorID] >>
              ELSE <<>>)
             \o ProjectEdges_DeveloperFirst(row, project_ids, devs, k + 1)

\* for project_id in project_ids, from token k on
RECURSIVE ProjectEdges(_, _, _, _)
ProjectEdges(row, project_ids, devs, k) ==
    IF k > Len(project_ids) THEN <<>>
    ELSE LET dev_row == DevRows(devs, project_ids[k])
         IN  (IF dev_row # <<>>
              THEN << [entity_1 |-> row.InvestorID, entity_1_name |-> row.FundName,
                       entity_2 |-> dev_row[1].DeveloperID,
                       entity_2_name |-> dev_row[1].DeveloperName,
                       relationship_type |-> "prior_interaction",
                       source_type |-> "investor_notes",
                       source_id |-> row.InvestorID] >>
              ELSE <<>>)
             \o ProjectEdges(row, project_ids, devs, k + 1)

\* for idx, row in datasets['investors'].iterrows(), from row k on
RECURSIVE InvestorEdges(_, _, _)
InvestorEdges(invs, devs, k) ==
    IF k > Len(invs) THEN <<>>
    ELSE (IF ~isna(invs[k].PriorInteractions)
          THEN ProjectEdges(invs[k], findall_project_ids(invs[k].PriorInteractions), devs, 1)
          ELSE <<>>)
         \o InvestorEdges(invs, devs, k + 1)

\* the list relationships before it becomes a DataFrame
GenerateRelationships(devs, invs, emails, transcripts) ==
    MentionEdges(emails, "email", 1)
        \o MentionEdges(transcripts, "transcript", 1)
        \o InvestorEdges(invs, devs, 1)

Triple(e) == <<e.entity_1, e.entity_2, e.relationship_type>>

\* drop_duplicates() without subset: only rows equal in every column are merged
RECURSIVE drop_duplicates_AllColumns(_, _)
drop_duplicates_AllColumns(rows, k) ==
    IF k = 0 THEN <<>>
    ELSE IF \E j \in 1..(k - 1) : rows[j] = rows[k]
         THEN drop_duplicates_AllColumns(rows, k - 1)
         ELSE Append(drop_duplicates_AllColumns(rows, k - 1), rows[k])

\* drop_duplicates(subset=..., keep='last')
RECURSIVE drop_duplicates_KeepLast(_, _)
drop_duplicates_KeepLast(rows, k) ==
    IF k = 0 THEN <<>>
    ELSE IF \E j \in (k + 1)..Len(rows) : Triple(rows[j]) = Triple(rows[k])
         THEN drop_duplicates_KeepLast(rows, k - 1)
         ELSE Append(drop_duplicates_KeepLast(rows, k - 1), rows[k])

\* df.drop_duplicates(subset=['entity_1', 'entity_2', 'relationship_type'])
\* over the first k rows: a row stays when no earlier row has its triple
RECURSIVE drop_duplicates(_, _)
drop_duplicates(rows, k) ==
    IF k = 0 THEN <<>>
    ELSE IF \E j \in 1..(k - 1) : Triple(rows[j]) = Triple(rows[k])
         THEN drop_duplicates(rows, k - 1)
         ELSE Append(drop_duplicates(rows, k - 1), rows[k])

create_relationships_table(devs, invs, emails, transcripts) ==
    LET rel == GenerateRelationships(devs, invs, emails, transcripts)
    IN  IF rel # <<>> THEN drop_duplicates(rel, Len(rel)) ELSE <<>>

(***************************************************************************)
(* Inputs of the aggregation                                                *)
(***************************************************************************)
MaxEmails == 2
MaxTranscripts == 1
MaxInvestors == 1

NameOfId(id) ==
    CASE id = "D1" -> <<"A", "b">>
      [] id = "D2" -> <<"a", "-", "b">>
      [] id = "I1" -> <<"N", "o", "r", "t", "h">>
      [] id = "I2" -> <<"S", "u", "n">>
      [] OTHER -> NA

MentionRecord(id) ==
    [entity_id |-> id, entity_name |-> NameOfId(id), matched_text |-> NameOfId(id)]

MentionList(ids) == [i \in 1..Len(ids) |-> MentionRecord(ids[i])]

\* the developers and investors found in one document
DocMentions ==
    { [developers |-> MentionList(<<"D1">>), investors |-> MentionList(<<"I1">>)],
      [developers |-> MentionList(<<"D1", "D2">>), investors |-> MentionList(<<"I2", "I1">>)],
      [developers |-> MentionList(<<"D2">>), investors |-> MentionList(<<>>)],
      [developers |-> MentionList(<<>>), investors |-> MentionList(<<"I1">>)] }

EmailIds == <<"E001", "E002", "E003", "E004">>
TranscriptIds == <<"T001", "T002", "T003", "T004">>

\* at most max documents, the i-th with the i-th id
DocLists(ids, max) ==
    UNION { { [i \in 1..k |-> [doc_id |-> ids[i],
                               developers |-> q[i].developers,
                               investors |-> q[i].investors]] :
              q \in [1..k -> DocMentions] } : k \in 0..max }

PriorInteractionsTexts ==
    { NA,
      <<"P", "0", "0", "1">>,
      <<"P", "0", "0", "1", "2">>,
      <<"P", "0", "0", "9", " ", "P", "0", "0", "2", ",", "P", "0", "0", "2">> }

InvestorTables ==
    UNION { { [i \in 1..k |-> [InvestorID |-> IF i = 1 THEN "I1" ELSE "I2",
                               FundName |-> NameOfId(IF i = 1 THEN "I1" ELSE "I2"),
                               PriorInteractions |-> q[i]]] :
              q \in [1..k -> PriorInteractionsTexts] } : k \in 0..MaxInvestors }

\* the ids of the entity maps on disk: those of the tables, or maps written
\* before the developer D2 was in the cleaned table
LoadedEntityMaps ==
    { <<{"D1", "D2"}, {"I1", "I2"}>>, <<{"D1"}, {"I1", "I2"}>> }

DeveloperRow(id, project) ==
    [DeveloperID |-> id, DeveloperName |-> NameOfId(id), ProjectID |-> project]

DeveloperTables ==
    { << DeveloperRow("D1", <<"P", "0", "0", "1">>), DeveloperRow("D2", <<"P", "0", "0", "2">>) >>,
      << DeveloperRow("D2", <<"P", "0", "0", "1">>), DeveloperRow("D1", <<"P", "0", "0", "1">>) >> }

(***************************************************************************)
(* Specification of the normaliser applied twice                            *)
(***************************************************************************)
IdleNorm ==
    /\ name = EmptyStr
    /\ norm1 = EmptyStr
    /\ norm2 = EmptyStr

IdleER ==
    /\ df = <<>>
    /\ entity_map = EmptyDict
    /\ threshold = SIMILARITY_THRESHOLD
    /\ potential_duplicates = <<>>
    /\ reverse_map = EmptyDict
    /\ text = NA
    /\ found_entities = <<>>

IdleAgg ==
    /\ developers = <<>>
    /\ investors = <<>>
    /\ email_mentions = <<>>
    /\ transcript_mentions = <<>>
    /\ relationships = <<>>
    /\ relationships_table = <<>>
    /\ dev_map = {}
    /\ inv_map = {}

IdleRep ==
    /\ entity_map_2 = EmptyDict
    /\ threshold_2 = SIMILARITY_THRESHOLD
    /\ potential_duplicates_2 = <<>>

NoTables == [developers |-> <<>>, investors |-> <<>>, emails |-> <<>>, transcripts |-> <<>>]

IdleMain ==
    /\ datasets = NoTables
    /\ developer_map = EmptyDict
    /\ investor_map = EmptyDict
    /\ written = {}

IdleRunner ==
    /\ raw_files = {}
    /\ checked = 0
    /\ all_present = TRUE
    /\ started = <<>>
    /\ results = EmptyDict
    /\ success_count = 0

InitNorm ==
    /\ pc = "norm_start"
    /\ name \in NameInputs \cup {NA}
    /\ norm1 = EmptyStr
    /\ norm2 = EmptyStr
    /\ IdleER
    /\ IdleAgg
    /\ IdleRep
    /\ IdleMain
    /\ IdleRunner

NormalizeOnce ==
    /\ pc = "norm_start"
    /\ norm1' = normalize_name(name)
    /\ pc' = "norm_once"
    /\ UNCHANGED <<name, norm2, erVars, aggVars, repVars, mainVars, runnerVars>>

NormalizeTwice ==
    /\ pc = "norm_once"
    /\ norm2' = normalize_name(norm1)
    /\ pc' = "norm_twice"
    /\ UNCHANGED <<name, norm1, erVars, aggVars, repVars, mainVars, runnerVars>>

NextNorm == NormalizeOnce \/ NormalizeTwice

SpecNorm == InitNorm /\ [][NextNorm]_vars

(***************************************************************************)
(* Specification of the entity resolution over one source table: the steps  *)
(* of main() in the order main() takes them                                 *)
(***************************************************************************)
InitER ==
    /\ pc = "er_start"
    /\ df \in Tables
    /\ entity_map = EmptyDict
    /\ threshold = SIMILARITY_THRESHOLD
    /\ potential_duplicates = <<>>
    /\ reverse_map = EmptyDict
    /\ text = NA
    /\ found_entities = <<>>
    /\ IdleNorm
    /\ IdleAgg
    /\ IdleRep
    /\ IdleMain
    /\ IdleRunner

BuildEntityMapping ==
    /\ pc = "er_start"
    /\ entity_map' \in build_entity_mapping(df, Len(df))
    /\ pc' = "er_built"
    /\ UNCHANGED <<df, threshold, potential_duplicates, reverse_map, text,
                   found_entities, normVars, aggVars, repVars, mainVars, runnerVars>>

\* the entity map without the keys ids
RemoveKeys(em, ids) ==
    [keys |-> SelectSeq(em.keys, LAMBDA k : k \notin ids),
     data |-> [x \in (DOMAIN em.data) \ ids |-> em.data[x]]]

\* duplicate detection that merges the second entity of each candidate away
FindSimilarEntities_Merging ==
    /\ pc = "er_built"
    /\ \E th \in Thresholds :
         /\ threshold' = th
         /\ potential_duplicates' = find_similar_entities(entity_map, th)
         /\ entity_map' =
              RemoveKeys(entity_map,
                         { find_similar_entities(entity_map, th)[k].id2 :
                             k \in 1..Len(find_similar_entities(entity_map, th)) })
    /\ pc' = "er_compared"
    /\ UNCHANGED <<df, reverse_map, text, found_entities, normVars, aggVars, repVars, mainVars, runnerVars>>

FindSimilarEntities ==
    /\ pc = "er_built"
    /\ \E th \in Thresholds :
         /\ threshold' = th
         /\ potential_duplicates' = find_similar_entities(entity_map, th)
    /\ pc' = "er_compared"
    /\ UNCHANGED <<df, entity_map, reverse_map, text, found_entities, normVars, aggVars, repVars, mainVars, runnerVars>>

CreateReverseLookup ==
    /\ pc = "er_compared"
    /\ reverse_map' = create_reverse_lookup(entity_map)
    /\ pc' = "er_indexed"
    /\ UNCHANGED <<df, entity_map, threshold, potential_duplicates, text,
                   found_entities, normVars, aggVars, repVars, mainVars, runnerVars>>

FindEntityInText ==
    /\ pc = "er_indexed"
    /\ \E t \in Texts :
         /\ text' = t
         /\ IF FindRaises(t, entity_map)
            THEN /\ pc' = "er_raised"
                 /\ UNCHANGED found_entities
            ELSE /\ pc' = "er_scanned"
                 /\ found_entities' = find_entity_in_text(t, entity_map)
    /\ UNCHANGED <<df, entity_map, threshold, potential_duplicates, reverse_map,
                   normVars, aggVars, repVars, mainVars, runnerVars>>

NextER ==
    \/ BuildEntityMapping
    \/ FindSimilarEntities
    \/ CreateReverseLookup
    \/ FindEntityInText

SpecER == InitER /\ [][NextER]_vars

(***************************************************************************)
(* Specification of repeated comparisons on one table: find_similar_entities *)
(* at two thresholds, on the map and on the map with its entities in the    *)
(* opposite order, and a second run of the build and the detection           *)
(***************************************************************************)
\* the entity map with the same entities inserted in the opposite order
ReverseKeys(em) ==
    [keys |-> [i \in 1..Len(em.keys) |-> em.keys[Len(em.keys) + 1 - i]],
     data |-> em.data]

FindSimilarAtTwoThresholds ==
    /\ pc = "er_built"
    /\ \E t1, t2 \in Thresholds :
         /\ t1 <= t2
         /\ threshold' = t1
         /\ potential_duplicates' = find_similar_entities(entity_map, t1)
         /\ threshold_2' = t2
         /\ potential_duplicates_2' = find_similar_entities(entity_map, t2)
    /\ pc' = "cmp_thresholds"
    /\ UNCHANGED <<df, entity_map, reverse_map, text, found_entities, entity_map_2,
                   normVars, aggVars, mainVars, runnerVars>>

FindSimilarInBothOrders ==
    /\ pc = "er_built"
    /\ \E th \in Thresholds :
         /\ threshold' = th
         /\ threshold_2' = th
         /\ potential_duplicates' = find_similar_entities(entity_map, th)
         /\ potential_duplicates_2' = find_similar_entities(ReverseKeys(entity_map), th)
    /\ entity_map_2' = ReverseKeys(entity_map)
    /\ pc' = "cmp_orders"
    /\ UNCHANGED <<df, entity_map, reverse_map, text, found_entities, normVars, aggVars, mainVars, runnerVars>>

\* a second run of the script on the same cleaned table
RunAgain ==
    /\ pc = "er_built"
    /\ \E em2 \in build_entity_mapping(df, Len(df)) :
         /\ entity_map_2' = em2
         /\ potential_duplicates_2' = find_similar_entities(em2, SIMILARITY_THRESHOLD)
    /\ potential_duplicates' = find_similar_entities(entity_map, SIMILARITY_THRESHOLD)
    /\ pc' = "cmp_rerun"
    /\ UNCHANGED <<df, entity_map, threshold, threshold_2, reverse_map, text,
                   found_entities, normVars, aggVars, mainVars, runnerVars>>

NextCompare ==
    \/ BuildEntityMapping
    \/ FindSimilarAtTwoThresholds
    \/ FindSimilarInBothOrders
    \/ RunAgain

SpecCompare == InitER /\ [][NextCompare]_vars

(***************************************************************************)
(* Specification of the aggregation: the inputs are read, then                *)
(* create_relationships_table runs                                          *)
(***************************************************************************)
InitAgg ==
    /\ pc = "agg_start"
    /\ developers \in DeveloperTables
    /\ investors \in InvestorTables
    /\ email_mentions \in DocLists(EmailIds, MaxEmails)
    /\ transcript_mentions \in DocLists(TranscriptIds, MaxTranscripts)
    /\ \E maps \in LoadedEntityMaps : dev_map = maps[1] /\ inv_map = maps[2]
    /\ relationships = <<>>
    /\ relationships_table = <<>>
    /\ IdleNorm
    /\ IdleER
    /\ IdleRep
    /\ IdleMain
    /\ IdleRunner

CreateRelationshipsTable ==
    /\ pc = "agg_start"
    /\ relationships' = GenerateRelationships(developers, investors, email_mentions,
                                              transcript_mentions)
    /\ relationships_table' = create_relationships_table(developers, investors,
                                                         email_mentions, transcript_mentions)
    /\ pc' = "agg_done"
    /\ UNCHANGED <<developers, investors, email_mentions, transcript_mentions,
                   dev_map, inv_map, normVars, erVars, repVars, mainVars, runnerVars>>

NextAgg == CreateRelationshipsTable

SpecAgg == InitAgg /\ [][NextAgg]_vars

(***************************************************************************)
(* Specification of a pipeline run: main() of 04_entity_resolution.py and,  *)
(* when it has succeeded, main() of 05_data_integration.py, step by step.   *)
(* Of a file only its name is kept; its content is a function of the state  *)
(* the step wrote it from.                                                  *)
(***************************************************************************)
\* str(x) of a cell: a missing value is the float nan and prints as "nan"
str(x) == IF isna(x) THEN <<"n", "a", "n">> ELSE x

MainDeveloperRow(id, developer_name, alternate_names, project) ==
    [DeveloperID |-> id, DeveloperName |-> developer_name,
     AlternateNames |-> alternate_names, ProjectID |-> project]

MainDeveloperTables ==
    { <<>>,
      << MainDeveloperRow("D1", <<"A", "b">>, <<"A", "n">>, <<"P", "0", "0", "1">>) >>,
      << MainDeveloperRow("D1", NA, NA, <<"P", "0", "0", "1">>) >>,
      << MainDeveloperRow(NaNId, <<"A", "b">>, NA, <<"P", "0", "0", "1">>) >>,
      << MainDeveloperRow("D1", <<"A", "b">>, NA, <<"P", "0", "0", "1">>),
         MainDeveloperRow("D2", <<"a", "-", "b">>, <<"b">>, <<"P", "0", "0", "2">>) >> }

MainInvestorTables ==
    { <<>>,
      << [InvestorID |-> "I1", FundName |-> NameOfId("I1"), PriorInteractions |-> NA] >>,
      << [InvestorID |-> "I1", FundName |-> NameOfId("I1"),
          PriorInteractions |-> <<"P", "0", "0", "1">>] >> }

EmailRow(id, subject, body) == [EmailID |-> id, Subject |-> subject, Body |-> body]

MainEmailTables ==
    { <<>>,
      << EmailRow("E001", NA, NA) >>,
      << EmailRow("E001", <<"A", "b">>, <<"N", "o", "r", "t", "h">>) >>,
      << EmailRow("E001", NA, NA), EmailRow("E002", <<"a", "-", "b">>, NA) >> }

MainTranscriptTables ==
    { <<>>,
      << [TranscriptID |-> "T001", TranscriptText |-> NA] >>,
      << [TranscriptID |-> "T001",
          TranscriptText |-> <<"A", "b", " ", "N", "o", "r", "t", "h">>] >> }

Datasets ==
    [developers : MainDeveloperTables, investors : MainInvestorTables,
     emails : MainEmailTables, transcripts : MainTranscriptTables]

\* the rows as build_entity_mapping reads them under id_col, name_col and
\* alt_names_col of the developers
DeveloperRecords(rows) ==
    [i \in 1..Len(rows) |-> [id |-> rows[i].DeveloperID, name |-> rows[i].DeveloperName,
                             alt_names |-> rows[i].AlternateNames]]

\* and of the investors, where alt_names_col is None
InvestorRecords(rows) ==
    [i \in 1..Len(rows) |-> [id |-> rows[i].InvestorID, name |-> rows[i].FundName,
                             alt_names |-> NA]]

\* text = str(row.get('Subject', '')) + ' ' + str(row.get('Body', ''))
EmailText(row) == str(row.Subject) \o <<" ">> \o str(row.Body)

\* text = str(row.get('TranscriptText', ''))
TranscriptTextOf(row) == str(row.TranscriptText)

EmailDocs(rows) ==
    [i \in 1..Len(rows) |-> [doc_id |-> rows[i].EmailID, text |-> EmailText(rows[i])]]

TranscriptDocs(rows) ==
    [i \in 1..Len(rows) |-> [doc_id |-> rows[i].TranscriptID,
                             text |-> TranscriptTextOf(rows[i])]]

\* the loop over the documents from document k on: a document gets a record
\* when a developer or an investor was found in it
RECURSIVE ScanDocs(_, _, _, _)
ScanDocs(docs, dm, im, k) ==
    IF k > Len(docs) THEN <<>>
    ELSE LET devs_found == find_entity_in_text(docs[k].text, dm)
             invs_found == find_entity_in_text(docs[k].text, im)
         IN  (IF devs_found # <<>> \/ invs_found # <<>>
              THEN << [doc_id |-> docs[k].doc_id, developers |-> devs_found,
                       investors |-> invs_found] >>
              ELSE <<>>)
             \o ScanDocs(docs, dm, im, k + 1)

\* some call of find_entity_in_text in the two loops raises
ScanRaises(docs, dm, im) ==
    \E k \in 1..Len(docs) : FindRaises(docs[k].text, dm) \/ FindRaises(docs[k].text, im)

EntityResolutionOutputs ==
    { "developer_entity_map.json", "investor_entity_map.json",
      "developer_reverse_lookup.json", "investor_reverse_lookup.json",
      "potential_developer_duplicates.csv", "potential_investor_duplicates.csv",
      "email_entity_mentions.json", "transcript_entity_mentions.json" }

IntegrationOutputs ==
    { "master_entities.csv", "enriched_projects.csv", "unified_communications.csv",
      "entity_relationships.csv", "integration_summary.json" }

\* json.load of a map json.dump wrote: the keys, a missing id as the key "NaN"
LoadedKeys(em) == { em.keys[i] : i \in 1..Len(em.keys) }

\* len(entities) and len(communications) of the integration
LenEntities(d) == Len(d.developers) + Len(d.investors)
LenCommunications(d) == Len(d.emails) + Len(d.transcripts)

\* entities['entity_type'] or communications['mentioned_developers'] of a
\* DataFrame built from no rows, which has no columns: KeyError
SummaryRaises(d) == LenEntities(d) = 0 \/ LenCommunications(d) = 0

InitMain ==
    /\ pc = "main_start"
    /\ datasets \in Datasets
    /\ developer_map = EmptyDict
    /\ investor_map = EmptyDict
    /\ written = {}
    /\ IdleNorm
    /\ IdleER
    /\ IdleAgg
    /\ IdleRep
    /\ IdleRunner

\* 04 main: the two entity maps
BuildEntityMaps ==
    /\ pc = "main_start"
    /\ developer_map' \in build_entity_mapping(DeveloperRecords(datasets.developers),
                                               Len(datasets.developers))
    /\ investor_map' \in build_entity_mapping(InvestorRecords(datasets.investors),
                                              Len(datasets.investors))
    /\ pc' = "maps_built"
    /\ UNCHANGED <<datasets, written, normVars, erVars, aggVars, repVars, runnerVars>>

\* 04 main: the mentions in the emails and in the transcripts; an exception
\* ends the script before anything is saved
FindMentions ==
    /\ pc = "maps_built"
    /\ IF \/ ScanRaises(EmailDocs(datasets.emails), developer_map, investor_map)
          \/ ScanRaises(TranscriptDocs(datasets.transcripts), developer_map, investor_map)
       THEN /\ pc' = "main_failed"
            /\ UNCHANGED <<email_mentions, transcript_mentions>>
       ELSE /\ email_mentions' =
                 ScanDocs(EmailDocs(datasets.emails), developer_map, investor_map, 1)
            /\ transcript_mentions' =
                 ScanDocs(TranscriptDocs(datasets.transcripts), developer_map,
                          investor_map, 1)
            /\ pc' = "mentions_found"
    /\ UNCHANGED <<developers, investors, relationships, relationships_table, dev_map,
                   inv_map, mainVars, normVars, erVars, repVars, runnerVars>>

\* 04 main: the eight files
SaveOutputs ==
    /\ pc = "mentions_found"
    /\ written' = written \cup EntityResolutionOutputs
    /\ pc' = "resolution_saved"
    /\ UNCHANGED <<datasets, developer_map, investor_map, normVars, erVars, aggVars,
                   repVars, runnerVars>>

\* 05 main: load_cleaned_data and load_entity_maps
LoadEntityMaps ==
    /\ pc = "resolution_saved"
    /\ developers' = datasets.developers
    /\ investors' = datasets.investors
    /\ dev_map' = LoadedKeys(developer_map)
    /\ inv_map' = LoadedKeys(investor_map)
    /\ pc' = "maps_loaded"
    /\ UNCHANGED <<email_mentions, transcript_mentions, relationships,
                   relationships_table, mainVars, normVars, erVars, repVars, runnerVars>>

\* 05 main: the first three tables, each written as soon as it is created
WriteTable ==
    /\ \/ pc = "maps_loaded" /\ written' = written \cup {"master_entities.csv"}
                              /\ pc' = "entities_written"
       \/ pc = "entities_written" /\ written' = written \cup {"enriched_projects.csv"}
                                  /\ pc' = "projects_written"
       \/ pc = "projects_written" /\ written' = written \cup {"unified_communications.csv"}
                                  /\ pc' = "communications_written"
    /\ UNCHANGED <<datasets, developer_map, investor_map, normVars, erVars, aggVars,
                   repVars, runnerVars>>

\* 05 main: the relationships table
WriteRelationships ==
    /\ pc = "communications_written"
    /\ relationships' = GenerateRelationships(developers, investors, email_mentions,
                                              transcript_mentions)
    /\ relationships_table' = create_relationships_table(developers, investors,
                                                         email_mentions, transcript_mentions)
    /\ written' = written \cup {"entity_relationships.csv"}
    /\ pc' = "relationships_written"
    /\ UNCHANGED <<developers, investors, email_mentions, transcript_mentions, dev_map,
                   inv_map, datasets, developer_map, investor_map, normVars, erVars,
                   repVars, runnerVars>>

\* 05 main: the summary, built after the four tables were written
WriteSummary ==
    /\ pc = "relationships_written"
    /\ IF SummaryRaises(datasets)
       THEN /\ pc' = "main_failed"
            /\ UNCHANGED written
       ELSE /\ written' = written \cup {"integration_summary.json"}
            /\ pc' = "main_done"
    /\ UNCHANGED <<datasets, developer_map, investor_map, normVars, erVars, aggVars,
                   repVars, runnerVars>>

NextMain ==
    \/ BuildEntityMaps
    \/ FindMentions
    \/ SaveOutputs
    \/ LoadEntityMaps
    \/ WriteTable
    \/ WriteRelationships
    \/ WriteSummary

SpecMain == InitMain /\ [][NextMain]_vars

(***************************************************************************)
(* Specification of the pipeline runner, run_all_scripts.py: the pre-flight *)
(* check file by file, then the loop over SCRIPTS. Whether a script         *)
(* succeeds is the environment's choice.                                    *)
(***************************************************************************)
SCRIPTS ==
    << "01_data_exploration.py", "02_data_quality_report.py", "03_data_cleaning.py",
       "04_entity_resolution.py", "05_data_integration.py" >>

required_files ==
    << "assign_data.xlsx  1 Project developer.csv",
       "assign_data.xlsx  2 Investors.csv",
       "assign_data.xlsx  3 Outlook emails.csv",
       "assign_data.xlsx  4 Meeting transcripts.csv" >>

\* how subprocess.run(..., check=True) ends
Outcomes == { "completed", "CalledProcessError", "FileNotFoundError" }

\* run_script: True when the script completed, False for the two exceptions
run_script(outcome) == outcome = "completed"

\* the status main records, without its emoji
StatusOf(success) == IF success THEN "Success" ELSE "Failed"

\* sum(1 for status in results.values() if "Success" in status)
CountSuccess(res) ==
    Cardinality({ i \in 1..Len(res.keys) : res.data[res.keys[i]] = "Success" })

InitRunner ==
    /\ pc = "runner_start"
    /\ raw_files \in SUBSET Range(required_files)
    /\ checked = 0
    /\ all_present = TRUE
    /\ started = <<>>
    /\ results = EmptyDict
    /\ success_count = 0
    /\ IdleNorm
    /\ IdleER
    /\ IdleAgg
    /\ IdleRep
    /\ IdleMain

\* one iteration of the loop over required_files
PreFlightCheck ==
    /\ pc = "runner_start"
    /\ checked < Len(required_files)
    /\ checked' = checked + 1
    /\ all_present' = IF required_files[checked + 1] \in raw_files THEN all_present
                      ELSE FALSE
    /\ UNCHANGED <<pc, raw_files, started, results, success_count, normVars, erVars,
                   aggVars, repVars, mainVars>>

\* if not all_present: return
PreFlightDone ==
    /\ pc = "runner_start"
    /\ checked = Len(required_files)
    /\ pc' = IF all_present THEN "runner_loop" ELSE "runner_returned"
    /\ UNCHANGED <<runnerVars, normVars, erVars, aggVars, repVars, mainVars>>

\* the loop over SCRIPTS without its break
RunScript_NoBreak ==
    /\ pc = "runner_loop"
    /\ Len(started) < Len(SCRIPTS)
    /\ \E outcome \in Outcomes :
         LET script == SCRIPTS[Len(started) + 1]
             success == run_script(outcome)
         IN  /\ started' = Append(started, script)
             /\ results' = Put(results, script, StatusOf(success))
             /\ pc' = IF Len(started) + 1 < Len(SCRIPTS) THEN "runner_loop"
                      ELSE "runner_summary"
    /\ UNCHANGED <<raw_files, checked, all_present, success_count, normVars, erVars,
                   aggVars, repVars, mainVars>>

\* one iteration of the loop over SCRIPTS: the next script is started, its
\* status recorded, and the loop ends at a failure or after the last script
RunScript ==
    /\ pc = "runner_loop"
    /\ Len(started) < Len(SCRIPTS)
    /\ \E outcome \in Outcomes :
         LET script == SCRIPTS[Len(started) + 1]
             success == run_script(outcome)
         IN  /\ started' = Append(started, script)
             /\ results' = Put(results, script, StatusOf(success))
             /\ pc' = IF success /\ Len(started) + 1 < Len(SCRIPTS) THEN "runner_loop"
                      ELSE "runner_summary"
    /\ UNCHANGED <<raw_files, checked, all_present, success_count, normVars, erVars,
                   aggVars, repVars, mainVars>>

\* the summary after the loop
Summary ==
    /\ pc = "runner_summary"
    /\ success_count' = CountSuccess(results)
    /\ pc' = "runner_done"
    /\ UNCHANGED <<raw_files, checked, all_present, started, results, normVars,
                   erVars, aggVars, repVars, mainVars>>

NextRunner ==
    \/ PreFlightCheck
    \/ PreFlightDone
    \/ RunScript
    \/ Summary

SpecRunner == InitRunner /\ [][NextRunner]_vars

\* C1: normalize_name is idempotent: normalising a normalised name changes nothing
C1_Idempotent == pc = "norm_twice" => norm2 = norm1

(***************************************************************************)
(* Properties of the entity resolution                                      *)
(***************************************************************************)
Compared == pc \in {"er_compared", "er_indexed", "er_scanned", "er_raised"}
Built == pc = "er_built" \/ Compared
Indexed == pc \in {"er_indexed", "er_scanned", "er_raised"}

VariantsOf(id) == Range(entity_map.data[id].normalized_variants)

\* the scores over the Cartesian product of the variant sets of two entities
PairScores(id1, id2) ==
    { fuzz_ratio(a, b) : a \in VariantsOf(id1), b \in VariantsOf(id2) }

IsMaxScore(m, id1, id2) ==
    m \in PairScores(id1, id2) /\ \A x \in PairScores(id1, id2) : RatGeq(m, x)

CandidatesOf(id1, id2) ==
    { k \in 1..Len(potential_duplicates) :
        potential_duplicates[k].id1 = id1 /\ potential_duplicates[k].id2 = id2 }

\* C2: a pair of distinct entities of the map is reported if and only if the
\* maximum similarity over the Cartesian product of their normalized variants
\* is >= threshold, and the reported similarity is that maximum
C2_ReportedIffMaxAboveThreshold ==
    Compared =>
      /\ \A i, j \in 1..Len(entity_map.keys) :
           i < j =>
             LET id1 == entity_map.keys[i]
                 id2 == entity_map.keys[j]
             IN  \E m \in PairScores(id1, id2) :
                   /\ IsMaxScore(m, id1, id2)
                   /\ (CandidatesOf(id1, id2) # {}) <=> RatGeqInt(m, threshold)
                   /\ \A k \in CandidatesOf(id1, id2) :
                        potential_duplicates[k].similarity = m
      /\ \A k \in 1..Len(potential_duplicates) :
           \E i, j \in 1..Len(entity_map.keys) :
             /\ i # j
             /\ potential_duplicates[k].id1 = entity_map.keys[i]
             /\ potential_duplicates[k].id2 = entity_map.keys[j]

\* a pair reported with a score equal to the threshold, the maximum of four
\* variant pairs that do not all score the same
C2_Witness ==
    /\ pc = "er_compared"
    /\ \E k \in 1..Len(potential_duplicates) :
         LET c == potential_duplicates[k] IN
         /\ RatGeqInt(c.similarity, threshold) /\ ~RatGeqInt(c.similarity, threshold + 1)
         /\ threshold > 0
         /\ Cardinality(VariantsOf(c.id1)) > 1 /\ Cardinality(VariantsOf(c.id2)) > 1
         /\ Cardinality(PairScores(c.id1, c.id2)) > 1

\* the names of an entity in the order they are tested
NamesOf(id) ==
    <<entity_map.data[id].canonical_name>> \o entity_map.data[id].alternate_names

Occurring(id) ==
    { i \in 1..Len(NamesOf(id)) : Contains(lower(text), lower(NamesOf(id)[i])) }

MentionsOfEntity(id) ==
    { k \in 1..Len(found_entities) : found_entities[k].entity_id = id }

C8_ReverseLookupComplete ==
    Indexed =>
      \A k \in 1..Len(entity_map.keys) :
        \A v \in VariantsOf(entity_map.keys[k]) :
          /\ HasKey(reverse_map, v)
          /\ \/ reverse_map.data[v] = entity_map.keys[k]
             \/ \E k2 \in 1..Len(entity_map.keys) :
                  k2 > k /\ v \in VariantsOf(entity_map.keys[k2])

\* C9: a normalized variant shared by two entities maps to the id of the one
\* processed later in the iteration order of the entity map
C9_LastWriteWins ==
    Indexed =>
      \A k1, k2 \in 1..Len(entity_map.keys) :
        \A v \in VariantsOf(entity_map.keys[k1]) \cap VariantsOf(entity_map.keys[k2]) :
          (k1 < k2 /\ \A k3 \in 1..Len(entity_map.keys) :
                         k3 > k2 => v \notin VariantsOf(entity_map.keys[k3]))
            => (HasKey(reverse_map, v) /\ reverse_map.data[v] = entity_map.keys[k2])

\* C10: normalized_variants of every built entity holds the normalized
\* canonical name and every normalized alternate name, and is never empty
C10_VariantsHoldAllNames ==
    Built =>
      \A k \in 1..Len(entity_map.keys) :
        LET e == entity_map.data[entity_map.keys[k]] IN
        /\ normalize_name(e.canonical_name) \in Range(e.normalized_variants)
        /\ \A i \in 1..Len(e.alternate_names) :
             normalize_name(e.alternate_names[i]) \in Range(e.normalized_variants)
        /\ e.normalized_variants # <<>>

\* a built entity with two alternates that normalize to values other than the
\* canonical name's
C10_Witness ==
    /\ pc = "er_built"
    /\ \E k \in 1..Len(entity_map.keys) :
         LET e == entity_map.data[entity_map.keys[k]] IN
         /\ Len(e.alternate_names) = 2
         /\ Len(e.normalized_variants) = 3

(***************************************************************************)
(* Properties of the aggregation                                            *)
(***************************************************************************)
\* C3: no two edges of the returned table share the triple
\* (entity_1, entity_2, relationship_type)
C3_NoDuplicateTriple ==
    pc = "agg_done" =>
      \A i, j \in 1..Len(relationships_table) :
        i # j => Triple(relationships_table[i]) # Triple(relationships_table[j])

\* edges were generated with a repeated triple, among them two that differ in
\* their source, and several edges are returned
C3_Witness ==
    /\ pc = "agg_done"
    /\ Len(relationships_table) >= 2
    /\ \E i, j \in 1..Len(relationships) :
         /\ i # j
         /\ Triple(relationships[i]) = Triple(relationships[j])
         /\ relationships[i] # relationships[j]

SourceRank(e) ==
    CASE e.source_type = "email" -> 1
      [] e.source_type = "transcript" -> 2
      [] e.source_type = "investor_notes" -> 3

\* the generated edges that are the first of their triple
FirstOfTriple ==
    { i \in 1..Len(relationships) :
        \A j \in 1..(i - 1) : Triple(relationships[j]) # Triple(relationships[i]) }

DocsWithPair(mentions, d, i) ==
    { k \in 1..Len(mentions) :
        /\ \E x \in 1..Len(mentions[k].developers) : mentions[k].developers[x].entity_id = d
        /\ \E y \in 1..Len(mentions[k].investors) : mentions[k].investors[y].entity_id = i }

\* C4: of the edges that share a triple the first one in generation order is
\* kept (emails, then transcripts, then investor notes, input order within
\* each), so a pair met in an email and in a transcript keeps source_type
\* email; the edges kept stay in generation order
C4_FirstOccurrenceKept ==
    pc = "agg_done" =>
      /\ \A i, j \in 1..Len(relationships) :
           i < j => SourceRank(relationships[i]) <= SourceRank(relationships[j])
      /\ Len(relationships_table) = Cardinality(FirstOfTriple)
      /\ \A k \in 1..Len(relationships_table) :
           \E i \in FirstOfTriple :
             /\ Cardinality({ j \in FirstOfTriple : j <= i }) = k
             /\ relationships_table[k] = relationships[i]
      /\ \A k \in 1..Len(relationships_table) :
           LET e == relationships_table[k]
               inEmails == DocsWithPair(email_mentions, e.entity_1, e.entity_2)
               inTranscripts == DocsWithPair(transcript_mentions, e.entity_1, e.entity_2)
           IN  e.relationship_type = "mentioned_together" =>
                 IF inEmails # {}
                 THEN /\ e.source_type = "email"
                      /\ \E m \in inEmails :
                           /\ \A m2 \in inEmails : m <= m2
                           /\ e.source_id = email_mentions[m].doc_id
                 ELSE /\ e.source_type = "transcript"
                      /\ \E m \in inTranscripts :
                           /\ \A m2 \in inTranscripts : m <= m2
                           /\ e.source_id = transcript_mentions[m].doc_id

\* a pair met in the second email and in a transcript but not in the first
\* email, while another edge comes from the first email
C4_Witness ==
    /\ pc = "agg_done"
    /\ \E k \in 1..Len(relationships_table) :
         LET e == relationships_table[k] IN
         /\ e.relationship_type = "mentioned_together"
         /\ DocsWithPair(email_mentions, e.entity_1, e.entity_2) = {2}
         /\ DocsWithPair(transcript_mentions, e.entity_1, e.entity_2) # {}
    /\ \E k \in 1..Len(relationships_table) :
         relationships_table[k].source_id = email_mentions[1].doc_id

AllDocs ==
    { [source_type |-> "email", doc |-> email_mentions[k]] : k \in 1..Len(email_mentions) }
      \cup { [source_type |-> "transcript", doc |-> transcript_mentions[k]] :
               k \in 1..Len(transcript_mentions) }

DevIdsOf(doc) == { doc.developers[x].entity_id : x \in 1..Len(doc.developers) }
InvIdsOf(doc) == { doc.investors[y].entity_id : y \in 1..Len(doc.investors) }

MentionedTogetherEdges ==
    { k \in 1..Len(relationships_table) :
        relationships_table[k].relationship_type = "mentioned_together" }

\* C5: the table has a mentioned_together edge (developer D, investor I) if and
\* only if some email or transcript lists D among its developers and I among
\* its investors; the edge carries the source type and id of such a document,
\* and a document without developers or without investors gives no edge
C5_MentionedTogetherIffCoMentioned ==
    pc = "agg_done" =>
      /\ \A k \in MentionedTogetherEdges :
           LET e == relationships_table[k] IN
           \E d \in AllDocs :
             /\ e.entity_1 \in DevIdsOf(d.doc)
             /\ e.entity_2 \in InvIdsOf(d.doc)
             /\ e.source_type = d.source_type
             /\ e.source_id = d.doc.doc_id
      /\ \A d \in AllDocs :
           \A dev \in DevIdsOf(d.doc), inv \in InvIdsOf(d.doc) :
             \E k \in MentionedTogetherEdges :
               /\ relationships_table[k].entity_1 = dev
               /\ relationships_table[k].entity_2 = inv
      /\ \A d \in AllDocs :
           (DevIdsOf(d.doc) = {} \/ InvIdsOf(d.doc) = {}) =>
             \A k \in 1..Len(relationships_table) :
               relationships_table[k].source_id # d.doc.doc_id

\* a transcript gives an edge while an email with developers and no investors
\* and an email with investors and no developers give none
C5_Witness ==
    /\ pc = "agg_done"
    /\ \E k \in MentionedTogetherEdges : relationships_table[k].source_type = "transcript"
    /\ \E m \in 1..Len(email_mentions) :
         email_mentions[m].developers # <<>> /\ email_mentions[m].investors = <<>>
    /\ \E m \in 1..Len(email_mentions) :
         email_mentions[m].developers = <<>> /\ email_mentions[m].investors # <<>>

\* the places of a text where a P is followed by exactly three digits
ExactProjectTokens(s) ==
    { SubSeq(s, i, i + 3) :
        i \in { x \in 1..(Len(s) - 3) :
                  /\ s[x] = "P" /\ IsDigit(s[x + 1]) /\ IsDigit(s[x + 2]) /\ IsDigit(s[x + 3])
                  /\ (x + 4 <= Len(s) => ~IsDigit(s[x + 4])) } }

\* the developers the project table gives for a set of project ids
ResolvedDevelopers(tokens) ==
    { DevRows(developers, t)[1].DeveloperID : t \in { u \in tokens : DevRows(developers, u) # <<>> } }

\* C6: for every investor record with a PriorInteractions text the table has a
\* prior_interaction edge (investor, developer, investor_notes, investor) for
\* exactly the tokens P + exactly three digits that resolve to a developer
C6_PriorInteractionExactTokens ==
    pc = "agg_done" =>
      \A r \in 1..Len(investors) :
        LET row == investors[r]
            expected == IF isna(row.PriorInteractions) THEN {}
                        ELSE ResolvedDevelopers(ExactProjectTokens(row.PriorInteractions))
            edges == { k \in 1..Len(relationships_table) :
                         /\ relationships_table[k].relationship_type = "prior_interaction"
                         /\ relationships_table[k].entity_1 = row.InvestorID }
        IN  /\ { relationships_table[k].entity_2 : k \in edges } = expected
            /\ \A k \in edges :
                 /\ relationships_table[k].source_type = "investor_notes"
                 /\ relationships_table[k].source_id = row.InvestorID

(***************************************************************************)
(* Properties of the duplicate candidates and of the entity map              *)
(***************************************************************************)
\* id_a < id_b on the identifiers of the tables
IdLess(a, b) == a = "D1" /\ b = "D2"

\* C13: every candidate has id1 < id2 and no unordered pair of entities is
\* reported twice, whatever the order of the records
C13_OrderedUnmirroredPairs ==
    Compared =>
      /\ \A k \in 1..Len(potential_duplicates) :
           (potential_duplicates[k].id1 # NaNId /\ potential_duplicates[k].id2 # NaNId)
             => IdLess(potential_duplicates[k].id1, potential_duplicates[k].id2)
      /\ \A k1, k2 \in 1..Len(potential_duplicates) :
           k1 # k2 =>
             {potential_duplicates[k1].id1, potential_duplicates[k1].id2}
               # {potential_duplicates[k2].id1, potential_duplicates[k2].id2}

\* C14: once built, the entity map is left as it is by find_similar_entities,
\* create_reverse_lookup and find_entity_in_text: same ids, same entities
C14_EntityMapImmutable ==
    [][(pc \in {"er_built", "er_compared", "er_indexed"}) => (entity_map' = entity_map)]_vars

\* all three operations have run on a map of two entities and each produced
\* something: a candidate, an index, a mention
C14_Witness ==
    /\ pc = "er_scanned"
    /\ Len(entity_map.keys) = 2
    /\ potential_duplicates # <<>>
    /\ reverse_map.keys # <<>>
    /\ found_entities # <<>>

\* C18: a record whose identifier is missing is dropped: the entity map has no
\* entry for it, and the records with an identifier are built
C18_MissingIdDropped ==
    Built =>
      /\ ~HasKey(entity_map, NaNId)
      /\ \A i \in 1..Len(df) : df[i].id # NaNId => HasKey(entity_map, df[i].id)

\* C11: for thresholds t1 <= t2 the candidates reported at t2 are among those
\* reported at t1, so raising the threshold never adds a candidate
C11_ThresholdMonotone ==
    pc = "cmp_thresholds" =>
      /\ \A k \in 1..Len(potential_duplicates_2) :
           \E j \in 1..Len(potential_duplicates) :
             potential_duplicates[j] = potential_duplicates_2[k]
      /\ Len(potential_duplicates_2) <= Len(potential_duplicates)

\* a pair reported at the lower threshold and no longer at the higher one
C11_Witness ==
    /\ pc = "cmp_thresholds"
    /\ threshold < threshold_2
    /\ potential_duplicates # <<>>
    /\ Len(potential_duplicates_2) < Len(potential_duplicates)

AllVariants == UNION { VariantsOf(entity_map.keys[k]) : k \in 1..Len(entity_map.keys) }

ReportedPairs(cands) == { {cands[k].id1, cands[k].id2} : k \in 1..Len(cands) }

\* C12: the score is symmetric, lies in [0, 100] and is 100 for two identical
\* strings; whether a pair of entities is reported, and with which score,
\* does not depend on which of the two comes first in the entity map
C12_SimilaritySymmetricBounded ==
    pc = "cmp_orders" =>
      /\ \A a, b \in AllVariants :
           /\ fuzz_ratio(a, b) = fuzz_ratio(b, a)
           /\ RatGeqInt(fuzz_ratio(a, b), 0)
           /\ RatGeq(Rat(100, 1), fuzz_ratio(a, b))
           /\ fuzz_ratio(a, a) = Rat(100, 1)
      /\ ReportedPairs(potential_duplicates) = ReportedPairs(potential_duplicates_2)
      /\ \A k \in 1..Len(potential_duplicates), j \in 1..Len(potential_duplicates_2) :
           {potential_duplicates[k].id1, potential_duplicates[k].id2}
               = {potential_duplicates_2[j].id1, potential_duplicates_2[j].id2}
             => potential_duplicates[k].similarity = potential_duplicates_2[j].similarity

\* two entities with variants of different lengths, reported in both orders
\* with a score strictly between 0 and 100
C12_Witness ==
    /\ pc = "cmp_orders"
    /\ Len(entity_map.keys) = 2
    /\ \E a, b \in AllVariants : Len(a) # Len(b) /\ a # <<>> /\ b # <<>>
    /\ \E k \in 1..Len(potential_duplicates) :
         /\ potential_duplicates[k].similarity.num > 0
         /\ ~RatGeqInt(potential_duplicates[k].similarity, 100)
         /\ potential_duplicates_2 # <<>>
         /\ potential_duplicates_2[1].id1 = potential_duplicates[k].id2

\* C16: two runs on the same cleaned table give identical entity maps, the
\* order of each normalized_variants list included, and identical candidates
\* with the same matched variant pairs
C16_RunsIdentical ==
    pc = "cmp_rerun" =>
      /\ entity_map_2 = entity_map
      /\ potential_duplicates_2 = potential_duplicates

\* C17: both ends of every edge are ids of the current entity maps: a mention
\* of an id that is not in the entity map gives no edge
C17_EdgesWithinEntityMaps ==
    pc = "agg_done" =>
      \A k \in 1..Len(relationships_table) :
        /\ relationships_table[k].entity_1 \in dev_map \cup inv_map
        /\ relationships_table[k].entity_2 \in dev_map \cup inv_map


(***************************************************************************)
(* Properties of a pipeline run                                             *)
(***************************************************************************)
\* C15: outputs are all-or-nothing: when a step of the run has failed, no
\* output file of the run has been written
C15_AllOrNothing == pc = "main_failed" => written = {}

\* no row of the table has an identifier
NoValidRecord(ids) == \A i \in 1..Len(ids) : ids[i] = NaNId

DeveloperIDs(d) == [i \in 1..Len(d.developers) |-> d.developers[i].DeveloperID]
InvestorIDs(d) == [i \in 1..Len(d.investors) |-> d.investors[i].InvestorID]

\* C19: when a source table is empty or has no record with a valid identifier,
\* building the entity maps fails (EmptyEntitySetError) and the run writes
\* nothing: past the build step the run is failed and no file exists
C19_EmptyEntitySetFatal ==
    (/\ pc # "main_start"
     /\ NoValidRecord(DeveloperIDs(datasets)) \/ NoValidRecord(InvestorIDs(datasets)))
      => (pc = "main_failed" /\ written = {})

\* the ids of the documents that have a record of mentions
MentionedDocs(mentions) == { mentions[k].doc_id : k \in 1..Len(mentions) }

AbsentEmail(row) == isna(row.Subject) /\ isna(row.Body)
AbsentTranscript(row) == isna(row.TranscriptText)

\* C20: absent text yields no mention and no error: find_entity_in_text of a
\* null text is empty for the entity maps built, an email without Subject and
\* Body and a transcript without TranscriptText get no record of mentions, and
\* the scan does not fail when every document is absent
C20_AbsentTextNoMentions ==
    /\ pc # "main_start" =>
         /\ find_entity_in_text(NA, developer_map) = <<>>
         /\ find_entity_in_text(NA, investor_map) = <<>>
         /\ ~FindRaises(NA, developer_map) /\ ~FindRaises(NA, investor_map)
    /\ pc \notin {"main_start", "maps_built"} =>
         /\ \A i \in 1..Len(datasets.emails) :
              AbsentEmail(datasets.emails[i])
                => datasets.emails[i].EmailID \notin MentionedDocs(email_mentions)
         /\ \A i \in 1..Len(datasets.transcripts) :
              AbsentTranscript(datasets.transcripts[i])
                => datasets.transcripts[i].TranscriptID
                     \notin MentionedDocs(transcript_mentions)
    /\ (pc = "main_failed" /\ written = {}) =>
         \/ \E i \in 1..Len(datasets.emails) : ~AbsentEmail(datasets.emails[i])
         \/ \E i \in 1..Len(datasets.transcripts) :
              ~AbsentTranscript(datasets.transcripts[i])

(***************************************************************************)
(* Properties of the normaliser                                             *)
(***************************************************************************)
\* C21: normalize_name of a missing name and of the empty string is the empty
\* string, and nothing is raised
C21_MissingOrEmptyGivesEmpty ==
    (pc # "norm_start" /\ (isna(name) \/ name = EmptyStr)) => norm1 = EmptyStr

C21_Witness == pc = "norm_once" /\ isna(name) /\ norm1 = EmptyStr

VerdeNova == <<"v", "e", "r", "d", "e", "n", "o", "v", "a">>
VerdeSpaceNova == <<"v", "e", "r", "d", "e", " ", "n", "o", "v", "a">>
VerdeNovaAgro == VerdeNova \o <<" ", "a", "g", "r", "o">>

\* the candidates of the entities D1 and D2, in this order
CandidatesD1D2 ==
    { k \in 1..Len(potential_duplicates) :
        potential_duplicates[k].id1 = "D1" /\ potential_duplicates[k].id2 = "D2" }

\* the second half of C22: the pair of UnlikeTable scores 40 and is not a
\* candidate at threshold 85
UnlikePairNotReported ==
    (pc = "er_compared" /\ df = UnlikeTable) =>
       /\ fuzz_ratio(normalize_name(df[1].name), normalize_name(df[2].name)) = Rat(40, 1)
       /\ threshold = SIMILARITY_THRESHOLD => potential_duplicates = <<>>

\* C22 as stated: "VerdeNova Solutions" and "Verde Nova Agro" normalize to
\* "verdenova" and "verdenova agro", score at least 85 and are a candidate at
\* threshold 85; a pair scoring 40 is not
C22_VerdeNovaAsStated ==
    /\ (pc = "er_compared" /\ df = VerdeNovaTable) =>
         /\ entity_map.data["D1"].normalized_variants = <<VerdeNova>>
         /\ entity_map.data["D2"].normalized_variants = <<VerdeNovaAgro>>
         /\ RatGeqInt(fuzz_ratio(VerdeNova, VerdeNovaAgro), SIMILARITY_THRESHOLD)
         /\ threshold = SIMILARITY_THRESHOLD => CandidatesD1D2 # {}
    /\ UnlikePairNotReported

\* C22 amended: the two names normalize to "verdenova" and "verde nova" (the
\* suffix agro is stripped, the space inside the name stays), score at least
\* 85 and are a candidate at threshold 85; a pair scoring 40 is not
C22_VerdeNovaAmended ==
    /\ (pc = "er_compared" /\ df = VerdeNovaTable) =>
         /\ entity_map.data["D1"].normalized_variants = <<VerdeNova>>
         /\ entity_map.data["D2"].normalized_variants = <<VerdeSpaceNova>>
         /\ RatGeqInt(fuzz_ratio(VerdeNova, VerdeSpaceNova), SIMILARITY_THRESHOLD)
         /\ threshold = SIMILARITY_THRESHOLD =>
              /\ CandidatesD1D2 # {}
              /\ \A k \in CandidatesD1D2 :
                   potential_duplicates[k].matched_variants = <<VerdeNova, VerdeSpaceNova>>
    /\ UnlikePairNotReported

C22_Witness ==
    /\ pc = "er_compared"
    /\ df = VerdeNovaTable
    /\ threshold = SIMILARITY_THRESHOLD
    /\ Len(potential_duplicates) = 1

Separators == {" ", ".", ",", "-"}

\* a word: at least one character, none of them a separator
IsWord(s) == s # <<>> /\ \A i \in 1..Len(s) : s[i] \notin Separators

\* C23: '.', ',' and '-' are each replaced with a space: two words joined by
\* '.', ',', '-' or ' ' normalize as the two words joined by a space, and the
\* result has no '.', ',', '-', no upper-case letter, no space at either end
\* and no two spaces in a row
C23_PunctuationBecomesSpace ==
    (pc = "norm_once" /\ ~isna(name)) =>
       /\ \A i \in 1..Len(name) :
            (/\ name[i] \in Separators
             /\ IsWord(SubSeq(name, 1, i - 1))
             /\ IsWord(SubSeq(name, i + 1, Len(name))))
              => norm1 = normalize_name(SubSeq(name, 1, i - 1) \o <<" ">>
                                          \o SubSeq(name, i + 1, Len(name)))
       /\ \A i \in 1..Len(norm1) :
            norm1[i] \notin {".", ",", "-"} /\ LowerChar(norm1[i]) = norm1[i]
       /\ norm1 # <<>> => (norm1[1] # " " /\ norm1[Len(norm1)] # " ")
       /\ \A i \in 1..(Len(norm1) - 1) : ~(norm1[i] = " " /\ norm1[i + 1] = " ")

\* the words of the suffix list
SuffixWords ==
    { Tail(SufLtd), Tail(SufLlc), Tail(SufInc), Tail(SufSolutions), Tail(SufAgro),
      Tail(SufCapital) }

\* in s the suffix word w stands after a space at position i and is not
\* trailing: a letter follows it at once (it begins a longer word), or a
\* space and then a letter (it is in the middle of the name)
SuffixNotTrailing(s, w, i) ==
    LET e == i + Len(w) IN
    /\ e <= Len(s)
    /\ SubSeq(s, i, e) = <<" ">> \o w
    /\ \/ e + 1 <= Len(s) /\ s[e + 1] \notin Separators
       \/ e + 2 <= Len(s) /\ s[e + 1] = " " /\ s[e + 2] \notin Separators

\* C24: a suffix of the list is stripped only where it is trailing: where it
\* begins a longer word or stands in the middle of the name, its characters
\* are kept in the result
C24_SuffixOnlyTrailing ==
    (pc = "norm_once" /\ ~isna(name)) =>
       \A w \in SuffixWords : \A i \in 1..Len(name) :
          SuffixNotTrailing(lower(name), w, i) => Contains(norm1, w)

(***************************************************************************)
(* Further properties of the entity resolution                              *)
(***************************************************************************)
\* C25: no entity of the map has the empty string among its normalized
\* variants
C25_NoEmptyVariant == Built => EmptyStr \notin AllVariants

\* the characters of a normalized name in the order of their code points
CharOrder ==
    << " ", "a", "b", "c", "d", "e", "f", "g", "h", "i", "j", "k", "l", "m", "n",
       "o", "p", "q", "r", "s", "t", "u", "v", "w", "x", "y", "z" >>

CharRank(c) == CHOOSE i \in 1..Len(CharOrder) : CharOrder[i] = c

\* s < t for two strings
RECURSIVE LexLess(_, _)
LexLess(s, t) ==
    IF t = <<>> THEN FALSE
    ELSE IF s = <<>> THEN TRUE
    ELSE IF Head(s) = Head(t) THEN LexLess(Tail(s), Tail(t))
    ELSE CharRank(Head(s)) < CharRank(Head(t))

\* the variant pairs of two entities that reach the maximum similarity
MaxPairs(id1, id2) ==
    { p \in VariantsOf(id1) \X VariantsOf(id2) :
        IsMaxScore(fuzz_ratio(p[1], p[2]), id1, id2) }

\* p is met no later than q when the first entity's sorted variants are the
\* outer loop and the second entity's the inner loop
PairBefore(p, q) ==
    \/ LexLess(p[1], q[1])
    \/ p[1] = q[1] /\ (p[2] = q[2] \/ LexLess(p[2], q[2]))

\* C26: when several variant pairs reach the same maximum similarity, the
\* recorded pair is the first of them in the lexicographically sorted order
\* of the two variant sets, whatever the storage order of the variants;
\* stated for the candidates whose entities have no empty variant
C26_TieBreakSorted ==
    Compared =>
      \A k \in 1..Len(potential_duplicates) :
        LET c == potential_duplicates[k]
            M == MaxPairs(c.id1, c.id2)
        IN  (/\ Cardinality(M) >= 2
             /\ c.matched_variants # None
             /\ EmptyStr \notin VariantsOf(c.id1) \cup VariantsOf(c.id2)) =>
              /\ c.matched_variants \in M
              /\ \A q \in M : PairBefore(c.matched_variants, q)

\* C27: every candidate, at every threshold, 0 included, carries a matched
\* variant pair (n1, n2) with n1 a variant of id1, n2 a variant of id2 and
\* similarity(n1, n2) the reported similarity; stated for the candidates
\* whose entities have no empty variant
C27_MatchedPairRecorded ==
    Compared =>
      \A k \in 1..Len(potential_duplicates) :
        LET c == potential_duplicates[k]
        IN  (EmptyStr \notin VariantsOf(c.id1) \cup VariantsOf(c.id2)) =>
              /\ c.matched_variants # None
              /\ c.matched_variants[1] \in VariantsOf(c.id1)
              /\ c.matched_variants[2] \in VariantsOf(c.id2)
              /\ fuzz_ratio(c.matched_variants[1], c.matched_variants[2]) = c.similarity

KeysOf(d) == { d.keys[i] : i \in 1..Len(d.keys) }

\* C30: every key of the reverse lookup maps to an id of the entity map, and
\* the key is one of that entity's normalized variants
C30_ReverseLookupSound ==
    Indexed =>
      \A v \in KeysOf(reverse_map) :
        /\ reverse_map.data[v] \in KeysOf(entity_map)
        /\ v \in VariantsOf(reverse_map.data[v])

C30_Witness ==
    /\ pc = "er_indexed"
    /\ \E v, w \in KeysOf(reverse_map) :
         /\ reverse_map.data[v] # reverse_map.data[w]
         /\ v \notin VariantsOf(reverse_map.data[w])

(***************************************************************************)
(* Further properties of the aggregation                                    *)
(***************************************************************************)
\* the ids of the developers: those of the developers table and those found
\* as developers in a document; likewise the ids of the investors
DeveloperIdsKnown ==
    { developers[i].DeveloperID : i \in 1..Len(developers) }
      \cup UNION { DevIdsOf(d.doc) : d \in AllDocs }

InvestorIdsKnown ==
    { investors[i].InvestorID : i \in 1..Len(investors) }
      \cup UNION { InvIdsOf(d.doc) : d \in AllDocs }

IsDeveloperId(id) == id \in DeveloperIdsKnown /\ id \notin InvestorIdsKnown
IsInvestorId(id) == id \in InvestorIdsKnown /\ id \notin DeveloperIdsKnown

\* C29: a mentioned_together edge runs from a developer to an investor and
\* has source_type email or transcript; a prior_interaction edge runs from an
\* investor, who is its source_id, to a developer and has source_type
\* investor_notes
C29_EdgeOrientation ==
    pc = "agg_done" =>
      \A k \in 1..Len(relationships_table) :
        LET e == relationships_table[k]
        IN  /\ e.relationship_type \in {"mentioned_together", "prior_interaction"}
            /\ e.relationship_type = "mentioned_together" =>
                 /\ IsDeveloperId(e.entity_1)
                 /\ IsInvestorId(e.entity_2)
                 /\ e.source_type \in {"email", "transcript"}
            /\ e.relationship_type = "prior_interaction" =>
                 /\ IsInvestorId(e.entity_1)
                 /\ e.entity_1 = e.source_id
                 /\ IsDeveloperId(e.entity_2)
                 /\ e.source_type = "investor_notes"

C29_Witness ==
    /\ pc = "agg_done"
    /\ \E k \in 1..Len(relationships_table) :
         /\ relationships_table[k].relationship_type = "prior_interaction"
         /\ relationships_table[k].entity_2 = "D2"
    /\ \E k \in 1..Len(relationships_table) :
         /\ relationships_table[k].relationship_type = "mentioned_together"
         /\ relationships_table[k].source_type = "email"

(***************************************************************************)
(* Properties of the pipeline runner                                        *)
(***************************************************************************)
\* C28: the scripts are started in the order of SCRIPTS; a script is started
\* only when the pre-flight check found every required file and every
\* earlier script succeeded; after the first failing script none is started
C28_FixedOrderStopAtFailure ==
    /\ Len(started) <= Len(SCRIPTS)
    /\ started = SubSeq(SCRIPTS, 1, Len(started))
    /\ results.keys = started
    /\ started # <<>> =>
         /\ checked = Len(required_files)
         /\ all_present
         /\ Range(required_files) \subseteq raw_files
    /\ \A k \in 1..Len(started) :
         results.data[started[k]] = "Failed" => k = Len(started)

C28_Witness ==
    /\ pc = "runner_done"
    /\ Len(started) = 3
    /\ results.data[started[3]] = "Failed"
    /\ success_count = 2
====
